---- MODULE Spec2Model ----
(***************************************************************************)
(* A model of the transmission RPC client (package transmission):          *)
(* the Sorting modes and the sort.Interface comparators of sorting.go, the *)
(* Command envelope with its argument struct and JSON tags, the command    *)
(* constructors, ExecuteCommand / sendCommand over the transport's Post,   *)
(* and the public operations of TransmissionClient.                        *)
(* sorting.go holds the client with its sixteen sorting modes and is what  *)
(* is modelled; transmission.go holds the same client without the switch   *)
(* in GetTorrents, and NewAddCmdByMagnet, which is taken from there.       *)
(*                                                                         *)
(* Strings whose content is ordered or computed (Torrent.Name, MetaInfo,   *)
(* file contents) are sequences of character codes; strings that are only *)
(* compared for equality or emptiness (method names, JSON field names,     *)
(* Result, Version, Filename, DownloadDir, errors) are TLA+ strings.       *)
(***************************************************************************)
EXTENDS Integers, Sequences, FiniteSets, TLC

\* Longest torrent list a reply carries.
MaxLen == 3

----------------------------------------------------------------------------
\* Sorting modes (sorting.go, const block, iota).
SortID == 0
SortRevID == 1
SortName == 2
SortRevName == 3
SortAge == 4
SortRevAge == 5
SortSize == 6
SortRevSize == 7
SortProgress == 8
SortRevProgress == 9
SortDownloaded == 10
SortRevDownloaded == 11
SortUploaded == 12
SortRevUploaded == 13
SortRatio == 14
SortRevRatio == 15

Sorting == SortID .. SortRevRatio

----------------------------------------------------------------------------
\* Go's < on strings: lexicographic on the bytes.
RECURSIVE StrLess(_, _)
StrLess(a, b) ==
    IF Len(b) = 0 THEN FALSE
    ELSE IF Len(a) = 0 THEN TRUE
    ELSE IF Head(a) # Head(b) THEN Head(a) < Head(b)
    ELSE StrLess(Tail(a), Tail(b))

\* Torrent: the identifier, the name and the six other fields a comparator
\* reads. The zero value is what &Torrent{} holds.
ZeroTorrent ==
    [ID |-> 0, Name |-> <<>>, AddedDate |-> 0, SizeWhenDone |-> 0,
     PercentDone |-> 0, DownloadedEver |-> 0, UploadedEver |-> 0,
     UploadRatio |-> 0]

\* The torrents a daemon may report. Every sort key has ties, no two keys
\* induce the same order, and UploadRatio uses its negative sentinel.
\* Names: "b", "a", "b", "ab".
Catalogue ==
    { [ID |-> 1, Name |-> <<98>>, AddedDate |-> 2, SizeWhenDone |-> 1,
       PercentDone |-> 1, DownloadedEver |-> 0, UploadedEver |-> 1,
       UploadRatio |-> -1],
      [ID |-> 2, Name |-> <<97>>, AddedDate |-> 2, SizeWhenDone |-> 2,
       PercentDone |-> 0, DownloadedEver |-> 1, UploadedEver |-> 0,
       UploadRatio |-> 0],
      [ID |-> 3, Name |-> <<98>>, AddedDate |-> 1, SizeWhenDone |-> 1,
       PercentDone |-> 0, DownloadedEver |-> 1, UploadedEver |-> 1,
       UploadRatio |-> 0],
      [ID |-> 4, Name |-> <<97, 98>>, AddedDate |-> 1, SizeWhenDone |-> 2,
       PercentDone |-> 1, DownloadedEver |-> 0, UploadedEver |-> 0,
       UploadRatio |-> 2] }

\* The torrent lists a reply may carry: any order, identifiers unique.
TorrentLists ==
    UNION { { s \in [1..n -> Catalogue] :
                \A i, j \in 1..n : i # j => s[i].ID # s[j].ID } : n \in 0..MaxLen }

----------------------------------------------------------------------------
\* The sort.Interface methods. Indices are 1-based here, 0-based in Go.
Swap_dup(t, i, j) == [t EXCEPT ![i] = t[j]]

Swap(t, i, j) == [t EXCEPT ![i] = t[j], ![j] = t[i]]

Less(by, t, i, j) ==
    CASE by = "byID" -> t[i].ID < t[j].ID
      [] by = "byName" -> StrLess(t[i].Name, t[j].Name)
      [] by = "byAge" -> t[i].AddedDate < t[j].AddedDate
      [] by = "bySize" -> t[i].SizeWhenDone < t[j].SizeWhenDone
      [] by = "byProgress" -> t[i].PercentDone < t[j].PercentDone
      [] by = "byDownloaded" -> t[i].DownloadedEver < t[j].DownloadedEver
      [] by = "byUploaded" -> t[i].UploadedEver < t[j].UploadedEver
      [] by = "byRatio" -> t[i].UploadRatio < t[j].UploadRatio

\* sort.Reverse(data).Less(i, j) is data.Less(j, i).
ReverseLess(by, t, i, j) == Less(by, t, j, i)

\* sort.Sort reaches the data only through Len, Less and Swap: whatever it
\* returns is the input after some sequence of Swap calls.
SwapStep(S) ==
    S \cup { Swap(t, i, j) : <<t, i, j>> \in
               UNION { {t} \X (1..Len(t)) \X (1..Len(t)) : t \in S } }

RECURSIVE SwapClosure(_)
SwapClosure(S) ==
    LET N == SwapStep(S) IN IF N = S THEN S ELSE SwapClosure(N)

\* sort.Sort(data): on return no element is Less than the one before it.
\* The library promises nothing about elements that compare equal ("The sort
\* is not guaranteed to be stable"), so every sorted arrangement that Swap can
\* reach is an outcome.
sortSort(t, by, reverse) ==
    { p \in SwapClosure({t}) :
        \A i \in 1..(Len(p) - 1) :
            ~ (IF reverse THEN ReverseLess(by, p, i + 1, i)
                          ELSE Less(by, p, i + 1, i)) }

\* Torrents.SortID .. Torrents.SortRatio.
TorrentsSortID(t, reverse) == sortSort(t, "byID", reverse)
TorrentsSortName(t, reverse) == sortSort(t, "byName", reverse)
TorrentsSortAge(t, reverse) == sortSort(t, "byAge", reverse)
TorrentsSortSize(t, reverse) == sortSort(t, "bySize", reverse)
TorrentsSortProgress(t, reverse) == sortSort(t, "byProgress", reverse)
TorrentsSortDownloaded(t, reverse) == sortSort(t, "byDownloaded", reverse)
TorrentsSortUploaded(t, reverse) == sortSort(t, "byUploaded", reverse)
TorrentsSortRatio(t, reverse) == sortSort(t, "byRatio", reverse)

\* The switch on sortType in GetTorrents: the lists it may return.
SortSwitch_ageForRatio(torrents, st) ==
    CASE st = SortID -> {torrents}
      [] st = SortRevID -> TorrentsSortID(torrents, TRUE)
      [] st = SortName -> TorrentsSortName(torrents, FALSE)
      [] st = SortRevName -> TorrentsSortName(torrents, TRUE)
      [] st = SortAge -> TorrentsSortAge(torrents, FALSE)
      [] st = SortRevAge -> TorrentsSortAge(torrents, TRUE)
      [] st = SortSize -> TorrentsSortSize(torrents, FALSE)
      [] st = SortRevSize -> TorrentsSortSize(torrents, TRUE)
      [] st = SortProgress -> TorrentsSortProgress(torrents, FALSE)
      [] st = SortRevProgress -> TorrentsSortProgress(torrents, TRUE)
      [] st = SortDownloaded -> TorrentsSortDownloaded(torrents, FALSE)
      [] st = SortRevDownloaded -> TorrentsSortDownloaded(torrents, TRUE)
      [] st = SortUploaded -> TorrentsSortUploaded(torrents, FALSE)
      [] st = SortRevUploaded -> TorrentsSortUploaded(torrents, TRUE)
      [] st = SortRatio -> TorrentsSortAge(torrents, FALSE)
      [] st = SortRevRatio -> TorrentsSortRatio(torrents, TRUE)

SortSwitch(torrents, st) ==
    CASE st = SortID -> {torrents}
      [] st = SortRevID -> TorrentsSortID(torrents, TRUE)
      [] st = SortName -> TorrentsSortName(torrents, FALSE)
      [] st = SortRevName -> TorrentsSortName(torrents, TRUE)
      [] st = SortAge -> TorrentsSortAge(torrents, FALSE)
      [] st = SortRevAge -> TorrentsSortAge(torrents, TRUE)
      [] st = SortSize -> TorrentsSortSize(torrents, FALSE)
      [] st = SortRevSize -> TorrentsSortSize(torrents, TRUE)
      [] st = SortProgress -> TorrentsSortProgress(torrents, FALSE)
      [] st = SortRevProgress -> TorrentsSortProgress(torrents, TRUE)
      [] st = SortDownloaded -> TorrentsSortDownloaded(torrents, FALSE)
      [] st = SortRevDownloaded -> TorrentsSortDownloaded(torrents, TRUE)
      [] st = SortUploaded -> TorrentsSortUploaded(torrents, FALSE)
      [] st = SortRevUploaded -> TorrentsSortUploaded(torrents, TRUE)
      [] st = SortRatio -> TorrentsSortRatio(torrents, FALSE)
      [] st = SortRevRatio -> TorrentsSortRatio(torrents, TRUE)

\* Torrents.GetIDs.
GetIDs_dropLast(t) == [i \in 1..(Len(t) - 1) |-> t[i].ID]

GetIDs(t) == [i \in 1..Len(t) |-> t[i].ID]

----------------------------------------------------------------------------
\* Command, arguments and their zero values.
ZeroTorrentAdded == [HashString |-> "", ID |-> 0, Name |-> ""]

ZeroStats ==
    [DownloadedBytes |-> 0, FilesAdded |-> 0, SecondsActive |-> 0,
     SessionCount |-> 0, UploadedBytes |-> 0]

ZeroArguments ==
    [Fields |-> <<>>, Torrents |-> <<>>, Ids |-> <<>>, DeleteData |-> FALSE,
     DownloadDir |-> "", MetaInfo |-> <<>>, Filename |-> "",
     TorrentAdded |-> ZeroTorrentAdded, ActiveTorrentCount |-> 0,
     CumulativeStats |-> ZeroStats, CurrentStats |-> ZeroStats,
     DownloadSpeed |-> 0, PausedTorrentCount |-> 0, TorrentCount |-> 0,
     UploadSpeed |-> 0, Version |-> ""]

ZeroCommand == [Method |-> "", Arguments |-> ZeroArguments, Result |-> ""]

\* The struct tags of arguments: Go field, JSON name, whether the tag says
\* omitempty, and the kind of value (which decides what "empty" is).
ArgTags ==
    << [go |-> "Fields", json |-> "fields", omitempty |-> TRUE, kind |-> "slice"],
       [go |-> "Torrents", json |-> "torrents", omitempty |-> TRUE, kind |-> "slice"],
       [go |-> "Ids", json |-> "ids", omitempty |-> TRUE, kind |-> "slice"],
       [go |-> "DeleteData", json |-> "delete-local-data", omitempty |-> TRUE, kind |-> "bool"],
       [go |-> "DownloadDir", json |-> "download-dir", omitempty |-> TRUE, kind |-> "string"],
       [go |-> "MetaInfo", json |-> "metainfo", omitempty |-> TRUE, kind |-> "chars"],
       [go |-> "Filename", json |-> "filename", omitempty |-> TRUE, kind |-> "string"],
       [go |-> "TorrentAdded", json |-> "torrent-added", omitempty |-> FALSE, kind |-> "struct"],
       [go |-> "ActiveTorrentCount", json |-> "activeTorrentCount", omitempty |-> FALSE, kind |-> "int"],
       [go |-> "CumulativeStats", json |-> "cumulative-stats", omitempty |-> FALSE, kind |-> "struct"],
       [go |-> "CurrentStats", json |-> "current-stats", omitempty |-> FALSE, kind |-> "struct"],
       [go |-> "DownloadSpeed", json |-> "downloadSpeed", omitempty |-> FALSE, kind |-> "int"],
       [go |-> "PausedTorrentCount", json |-> "pausedTorrentCount", omitempty |-> FALSE, kind |-> "int"],
       [go |-> "TorrentCount", json |-> "torrentCount", omitempty |-> FALSE, kind |-> "int"],
       [go |-> "UploadSpeed", json |-> "uploadSpeed", omitempty |-> FALSE, kind |-> "int"],
       [go |-> "Version", json |-> "version", omitempty |-> FALSE, kind |-> "string"] >>

\* encoding/json's "empty value" of omitempty: false, 0, an empty slice or
\* string. A struct is never empty.
IsEmptyValue(kind, v) ==
    CASE kind = "slice" -> Len(v) = 0
      [] kind = "chars" -> Len(v) = 0
      [] kind = "string" -> v = ""
      [] kind = "bool" -> v = FALSE
      [] kind = "int" -> v = 0
      [] kind = "struct" -> FALSE

\* The JSON object with no member.
EmptyObject == [k \in {} |-> 0]

Member(obj, k, zero) == IF k \in DOMAIN obj THEN obj[k] ELSE zero

\* A Torrent as a JSON object, and back (an absent member leaves the zero).
MarshalTorrent(t) ==
    [id |-> t.ID, name |-> t.Name, addedDate |-> t.AddedDate,
     sizeWhenDone |-> t.SizeWhenDone, percentDone |-> t.PercentDone,
     downloadedEver |-> t.DownloadedEver, uploadedEver |-> t.UploadedEver,
     uploadRatio |-> t.UploadRatio]

UnmarshalTorrent(o) ==
    [ID |-> Member(o, "id", 0), Name |-> Member(o, "name", <<>>),
     AddedDate |-> Member(o, "addedDate", 0),
     SizeWhenDone |-> Member(o, "sizeWhenDone", 0),
     PercentDone |-> Member(o, "percentDone", 0),
     DownloadedEver |-> Member(o, "downloadedEver", 0),
     UploadedEver |-> Member(o, "uploadedEver", 0),
     UploadRatio |-> Member(o, "uploadRatio", 0)]

\* json.Marshal of the arguments struct: a member per field, in tag name,
\* except an omitempty field holding its empty value.
MarshalArguments(a) ==
    LET present == { i \in 1..Len(ArgTags) :
                       ~ ArgTags[i].omitempty
                       \/ ~ IsEmptyValue(ArgTags[i].kind, a[ArgTags[i].go]) }
        goOf(k) == (CHOOSE i \in present : ArgTags[i].json = k)
    IN  [k \in { ArgTags[i].json : i \in present } |->
           IF k = "torrents"
           THEN [n \in 1..Len(a.Torrents) |-> MarshalTorrent(a.Torrents[n])]
           ELSE a[ArgTags[goOf(k)].go]]

\* json.Marshal of a Command: method and result are omitempty strings; the
\* omitempty on the arguments struct never omits it.
Marshal(cmd) ==
    LET top == {"arguments"}
                 \cup (IF cmd.Method # "" THEN {"method"} ELSE {})
                 \cup (IF cmd.Result # "" THEN {"result"} ELSE {})
    IN  [k \in top |->
           CASE k = "method" -> cmd.Method
             [] k = "arguments" -> MarshalArguments(cmd.Arguments)
             [] k = "result" -> cmd.Result]

UnmarshalTorrentAdded(o) ==
    [HashString |-> Member(o, "hashString", ""), ID |-> Member(o, "id", 0),
     Name |-> Member(o, "name", "")]

UnmarshalStats(o) ==
    [DownloadedBytes |-> Member(o, "downloadedBytes", 0),
     FilesAdded |-> Member(o, "filesAdded", 0),
     SecondsActive |-> Member(o, "secondsActive", 0),
     SessionCount |-> Member(o, "sessionCount", 0),
     UploadedBytes |-> Member(o, "uploadedBytes", 0)]

\* json.Unmarshal into a fresh Command.
Unmarshal(obj) ==
    LET a == Member(obj, "arguments", EmptyObject)
        ts == Member(a, "torrents", <<>>)
    IN  [Method |-> Member(obj, "method", ""),
         Arguments |->
           [Fields |-> Member(a, "fields", <<>>),
            Torrents |-> [n \in 1..Len(ts) |-> UnmarshalTorrent(ts[n])],
            Ids |-> Member(a, "ids", <<>>),
            DeleteData |-> Member(a, "delete-local-data", FALSE),
            DownloadDir |-> Member(a, "download-dir", ""),
            MetaInfo |-> Member(a, "metainfo", <<>>),
            Filename |-> Member(a, "filename", ""),
            TorrentAdded |->
              UnmarshalTorrentAdded(Member(a, "torrent-added", EmptyObject)),
            ActiveTorrentCount |-> Member(a, "activeTorrentCount", 0),
            CumulativeStats |->
              UnmarshalStats(Member(a, "cumulative-stats", EmptyObject)),
            CurrentStats |->
              UnmarshalStats(Member(a, "current-stats", EmptyObject)),
            DownloadSpeed |-> Member(a, "downloadSpeed", 0),
            PausedTorrentCount |-> Member(a, "pausedTorrentCount", 0),
            TorrentCount |-> Member(a, "torrentCount", 0),
            UploadSpeed |-> Member(a, "uploadSpeed", 0),
            Version |-> Member(a, "version", "")],
         Result |-> Member(obj, "result", "")]

----------------------------------------------------------------------------
\* base64.StdEncoding: the character of a 6-bit value, and the padding.
B64Char(n) ==
    IF n < 26 THEN 65 + n
    ELSE IF n < 52 THEN 97 + (n - 26)
    ELSE IF n < 62 THEN 48 + (n - 52)
    ELSE IF n = 62 THEN 43 ELSE 47

B64Pad == <<61>>

RECURSIVE EncodeToString(_)
EncodeToString(data) ==
    IF Len(data) = 0 THEN <<>>
    ELSE IF Len(data) = 1 THEN
        << B64Char(data[1] \div 4), B64Char((data[1] % 4) * 16) >>
          \o B64Pad \o B64Pad
    ELSE IF Len(data) = 2 THEN
        << B64Char(data[1] \div 4),
           B64Char((data[1] % 4) * 16 + data[2] \div 16),
           B64Char((data[2] % 16) * 4) >> \o B64Pad
    ELSE
        << B64Char(data[1] \div 4),
           B64Char((data[1] % 4) * 16 + data[2] \div 16),
           B64Char((data[2] % 16) * 4 + data[3] \div 64),
           B64Char(data[3] % 64) >>
          \o EncodeToString(SubSeq(data, 4, Len(data)))

\* The command constructors.
NewGetTorrentsCmd ==
    [ZeroCommand EXCEPT
       !.Method = "torrent-get",
       !.Arguments.Fields =
          << "id", "name", "status", "addedDate", "leftUntilDone",
             "sizeWhenDone", "eta", "uploadRatio", "uploadedEver",
             "rateDownload", "rateUpload", "downloadDir", "isFinished",
             "downloadedEver", "percentDone", "seedRatioMode", "error",
             "errorString", "trackers" >>]

NewAddCmd == [ZeroCommand EXCEPT !.Method = "torrent-add"]

NewAddCmdByURL_both(url) ==
    [NewAddCmd EXCEPT !.Arguments.Filename = url,
                      !.Arguments.MetaInfo = EncodeToString(<<77>>)]

NewAddCmdByURL(url) == [NewAddCmd EXCEPT !.Arguments.Filename = url]

\* transmission.go: the same body as NewAddCmdByURL.
NewAddCmdByMagnet(magnetLink) ==
    [NewAddCmd EXCEPT !.Arguments.Filename = magnetLink]

NewAddCmdByFilename(filename) ==
    [NewAddCmd EXCEPT !.Arguments.Filename = filename]

\* NewAddCmdByFile once ioutil.ReadFile has returned fileData.
NewAddCmdByFile(fileData) ==
    [NewAddCmd EXCEPT !.Arguments.MetaInfo = EncodeToString(fileData)]

SetDownloadDir(c, dir) == [c EXCEPT !.Arguments.DownloadDir = dir]

\* A newDelCmd that never asks for the local data to be deleted.
newDelCmd_keepData(id, removeFile) ==
    [ZeroCommand EXCEPT !.Method = "torrent-remove",
                        !.Arguments.Ids = <<id>>]

newDelCmd(id, removeFile) ==
    [ZeroCommand EXCEPT !.Method = "torrent-remove",
                        !.Arguments.Ids = <<id>>,
                        !.Arguments.DeleteData = removeFile]

----------------------------------------------------------------------------
\* What the callers pass in.
Ids == {1, 2, 9}
Urls == {"", "magnet:?xt=urn:btih:c12fe1", "http://host/a.torrent"}
Filenames == {"", "/tmp/a.torrent"}
Dirs == {"", "/downloads"}
\* What ioutil.ReadFile may find in the file: nothing, "M", "Ma", "Man".
FileContents == { <<>>, <<77>>, <<77, 97>>, <<77, 97, 110>> }

\* error values
Nil == "nil"
ErrTransport == "transport"
ErrUnauthorized == "unauthorized"
\* the errors Post may return
PostErrors == {ErrTransport, ErrUnauthorized}
ErrDecode == "decode"
ErrReadFile == "readfile"
ErrNotFound == "No torrent with that id"

----------------------------------------------------------------------------
\* The transport. Post either fails or returns bytes; the bytes are valid
\* JSON of the expected types ("ok"), valid JSON with a member of the wrong
\* type ("type": json.Unmarshal stores the rest and returns an error), or
\* not JSON at all ("syntax": nothing is stored).
StatsObject ==
    [downloadedBytes |-> 7, filesAdded |-> 1, secondsActive |-> 3,
     sessionCount |-> 1, uploadedBytes |-> 2]

ReplyObjects(body) ==
    LET m == Member(body, "method", "") IN
    CASE m = "torrent-get" ->
           { [arguments |->
                [torrents |-> [n \in 1..Len(l) |-> MarshalTorrent(l[n])]],
              result |-> "success"] : l \in TorrentLists }
      [] m = "torrent-add" ->
           { [arguments |->
                [k \in {"torrent-added"} |->
                   [hashString |-> "c12fe1", id |-> 5, name |-> "added"]],
              result |-> "success"],
             [arguments |-> EmptyObject, result |-> "duplicate torrent"] }
      [] m = "session-stats" ->
           { [arguments |->
                [activeTorrentCount |-> 1, pausedTorrentCount |-> 2,
                 torrentCount |-> 3, downloadSpeed |-> 10, uploadSpeed |-> 4]
                @@ [k \in {"cumulative-stats", "current-stats"} |-> StatsObject],
              result |-> "success"] }
      [] m = "session-get" ->
           { [arguments |-> [version |-> "2.94"], result |-> "success"] }
      [] OTHER ->
           { [arguments |-> EmptyObject, result |-> "success"] }

\* err is the error Post itself returned (Nil when it returned bytes).
PostOutcomes(body) ==
    { [kind |-> "posterr", obj |-> EmptyObject, err |-> e] : e \in PostErrors }
      \cup { [kind |-> "syntax", obj |-> EmptyObject, err |-> Nil] }
      \cup { [kind |-> k, obj |-> o, err |-> Nil] :
               k \in {"ok", "type"}, o \in ReplyObjects(body) }

\* An ExecuteCommand that answers every failure of Post with one error of
\* its own.
ExecuteCommand_ownError(r) ==
    CASE r.kind = "posterr" ->
           [out |-> ZeroCommand, err |-> ErrTransport, decoded |-> FALSE]
      [] r.kind = "syntax" ->
           [out |-> ZeroCommand, err |-> ErrDecode, decoded |-> TRUE]
      [] r.kind = "type" ->
           [out |-> Unmarshal(r.obj), err |-> ErrDecode, decoded |-> TRUE]
      [] r.kind = "ok" ->
           [out |-> Unmarshal(r.obj), err |-> Nil, decoded |-> TRUE]

\* ExecuteCommand from the return of Post on: (out, err). The field decoded
\* is history: whether json.Unmarshal was called on the way.
ExecuteCommand(r) ==
    CASE r.kind = "posterr" ->
           [out |-> ZeroCommand, err |-> r.err, decoded |-> FALSE]
      [] r.kind = "syntax" ->
           [out |-> ZeroCommand, err |-> ErrDecode, decoded |-> TRUE]
      [] r.kind = "type" ->
           [out |-> Unmarshal(r.obj), err |-> ErrDecode, decoded |-> TRUE]
      [] r.kind = "ok" ->
           [out |-> Unmarshal(r.obj), err |-> Nil, decoded |-> TRUE]

\* sendCommand from the return of Post on: (response, err).
sendCommand(r) ==
    CASE r.kind = "posterr" ->
           [out |-> ZeroCommand, err |-> r.err, decoded |-> FALSE]
      [] r.kind = "syntax" ->
           [out |-> ZeroCommand, err |-> ErrDecode, decoded |-> TRUE]
      [] r.kind = "type" ->
           [out |-> Unmarshal(r.obj), err |-> ErrDecode, decoded |-> TRUE]
      [] r.kind = "ok" ->
           [out |-> Unmarshal(r.obj), err |-> Nil, decoded |-> TRUE]

----------------------------------------------------------------------------
\* State. sortType is the package variable; the rest is one caller's
\* position in one call of the client: pc is "idle", "built" (the caller
\* holds a command it constructed), "inflight" (inside Post), "decoded"
\* (GetTorrents holds the reply's torrents, before its switch) or "done".
VARIABLES
    sortType,   \* var sortType
    lastSet,    \* history: the argument of the latest SetSort (SortID before any)
    stale,      \* an earlier value of sortType that an unordered read may still see
    raced,      \* history: a SetSort ran while this call was before its switch
    pc,
    op,         \* the public operation in progress
    arg,        \* its arguments
    cmd,        \* the Command the caller built
    posts,      \* the bodies handed to Post during this call, in order
    errs,       \* history: the err of each Post-and-decode of this call, in order
    decodes,    \* history: whether json.Unmarshal ran after each Post, in order
    listed,     \* out.Arguments.Torrents of a list query decoded without error
    ordered,    \* GetTorrents: the list it returns
    modeRead,   \* history: the sortType the switch of GetTorrents read
    torrent,    \* DeleteTorrent: the torrent GetTorrent returned
    ret         \* what the operation returned

vars == << sortType, lastSet, stale, raced, pc, op, arg, cmd, posts, errs, decodes, listed,
           ordered, modeRead, torrent, ret >>

NoArg == [id |-> 0, wd |-> FALSE]
NoRet == [pending |-> TRUE]

BulkOps == {"StartAll", "StopAll", "VerifyAll"}
SimpleOps == {"StartTorrent", "StopTorrent", "VerifyTorrent"}

\* The method each start/stop/verify operation names.
MethodOf(o) ==
    CASE o \in {"StartAll", "StartTorrent"} -> "torrent-start"
      [] o \in {"StopAll", "StopTorrent"} -> "torrent-stop"
      [] o \in {"VerifyAll", "VerifyTorrent"} -> "torrent-verify"

Init ==
    /\ sortType = SortID
    /\ lastSet = SortID
    /\ stale = SortID
    /\ raced = FALSE
    /\ pc = "idle"
    /\ op = "none"
    /\ arg = NoArg
    /\ cmd = ZeroCommand
    /\ posts = <<>>
    /\ errs = <<>>
    /\ decodes = <<>>
    /\ listed = <<>>
    /\ ordered = <<>>
    /\ modeRead = SortID
    /\ torrent = ZeroTorrent
    /\ ret = NoRet

\* A call that will read sortType in the switch of GetTorrents is under way
\* and has not read it yet. The caller is inside that call, so a SetSort now
\* is made by another goroutine, and nothing orders its write and the read.
Racing ==
    /\ pc \in {"inflight", "decoded"}
    /\ op \in {"GetTorrents"} \cup BulkOps
    /\ Len(posts) = 1

\* SetSort: may run at any moment, whatever the caller is doing. sortType is
\* written here and read in GetTorrents with no synchronisation. A SetSort
\* between calls is ordered before the next call's read. One that races a
\* call is not: the read may then see this write or a value sortType had
\* earlier in the call, so one such earlier value is kept, whichever.
SetSort(st) ==
    /\ sortType' = st
    /\ lastSet' = st
    /\ IF Racing
       THEN raced' = TRUE /\ stale' \in {stale, sortType}
       ELSE raced' = FALSE /\ stale' = st
    /\ UNCHANGED << pc, op, arg, cmd, posts, errs, decodes, listed, ordered,
                    modeRead, torrent, ret >>

\* An operation is entered and runs up to its first Post of command c.
\* json.Marshal cannot fail on a Command built here (it holds no value that
\* has no JSON form), so the return on its error is never taken.
Enter(o, a, c) ==
    /\ op' = o
    /\ arg' = a
    /\ posts' = << Marshal(c) >>
    /\ pc' = "inflight"
    /\ errs' = <<>>
    /\ decodes' = <<>>
    /\ listed' = <<>>
    /\ ordered' = <<>>
    /\ torrent' = ZeroTorrent
    /\ ret' = NoRet
    /\ modeRead' = SortID
    /\ UNCHANGED << sortType, lastSet, stale, raced >>

\* The operation returns r.
Leave(r) ==
    /\ pc' = "done"
    /\ ret' = r
    /\ UNCHANGED << sortType, lastSet, stale, raced, op, arg, cmd >>

\* GetTorrents, StartAll, StopAll, VerifyAll: up to the Post of the list query.
CallGetTorrents ==
    /\ pc = "idle"
    /\ \E o \in {"GetTorrents"} \cup BulkOps : Enter(o, NoArg, NewGetTorrentsCmd)
    /\ UNCHANGED cmd

\* GetTorrent and DeleteTorrent: up to the Post of the list-one query.
CallGetTorrent ==
    /\ pc = "idle"
    /\ \E id \in Ids, wd \in BOOLEAN, o \in {"GetTorrent", "DeleteTorrent"} :
          /\ o = "GetTorrent" => wd = FALSE
          /\ Enter(o, [id |-> id, wd |-> wd],
                   [NewGetTorrentsCmd EXCEPT
                      !.Arguments.Ids = Append(@, id)])
    /\ UNCHANGED cmd

CallGetStats ==
    /\ pc = "idle"
    /\ Enter("GetStats", NoArg, [ZeroCommand EXCEPT !.Method = "session-stats"])
    /\ UNCHANGED cmd

\* StartTorrent, StopTorrent, VerifyTorrent through sendSimpleCommand.
CallSimple ==
    /\ pc = "idle"
    /\ \E o \in SimpleOps, id \in Ids :
          Enter(o, [id |-> id, wd |-> FALSE],
                [ZeroCommand EXCEPT !.Method = MethodOf(o),
                                    !.Arguments.Ids = <<id>>])
    /\ UNCHANGED cmd

CallVersion ==
    /\ pc = "idle"
    /\ Enter("Version", NoArg, [ZeroCommand EXCEPT !.Method = "session-get"])
    /\ UNCHANGED cmd

\* The caller constructs a command.
Build(o, src, c) ==
    /\ pc' = "built"
    /\ op' = o
    /\ arg' = [src |-> src, dir |-> FALSE]
    /\ cmd' = c
    /\ posts' = <<>>
    /\ errs' = <<>>
    /\ decodes' = <<>>
    /\ ret' = NoRet
    /\ modeRead' = SortID
    /\ UNCHANGED << sortType, lastSet, stale, raced, listed, ordered, torrent >>

BuildGetTorrentsCmd ==
    /\ pc = "idle"
    /\ Build("NewGetTorrentsCmd", "", NewGetTorrentsCmd)

BuildAddCmdByURL ==
    /\ pc = "idle"
    /\ \E url \in Urls : Build("NewAddCmdByURL", url, NewAddCmdByURL(url))

BuildAddCmdByMagnet ==
    /\ pc = "idle"
    /\ \E m \in Urls : Build("NewAddCmdByMagnet", m, NewAddCmdByMagnet(m))

BuildAddCmdByFilename ==
    /\ pc = "idle"
    /\ \E f \in Filenames :
          Build("NewAddCmdByFilename", f, NewAddCmdByFilename(f))

\* NewAddCmdByFile: ioutil.ReadFile fails, or returns the file's bytes.
BuildAddCmdByFile ==
    /\ pc = "idle"
    /\ \/ /\ op' = "NewAddCmdByFile"
          /\ arg' = [src |-> <<>>, dir |-> FALSE]
          /\ pc' = "done"
          /\ ret' = [val |-> "nil", err |-> ErrReadFile]
          /\ posts' = <<>>
          /\ errs' = <<>>
          /\ decodes' = <<>>
          /\ modeRead' = SortID
          /\ UNCHANGED << sortType, lastSet, stale, raced, cmd, listed, ordered, torrent >>
       \/ \E data \in FileContents :
             Build("NewAddCmdByFile", data, NewAddCmdByFile(data))

DoSetDownloadDir ==
    /\ pc = "built"
    /\ \E dir \in Dirs :
          /\ cmd' = SetDownloadDir(cmd, dir)
          /\ arg' = [arg EXCEPT !.dir = TRUE]
    /\ UNCHANGED << sortType, lastSet, stale, raced, pc, op, posts, errs, decodes, listed,
                    ordered, modeRead, torrent, ret >>

\* ExecuteCommand or ExecuteAddCommand on the command built, up to its Post.
CallExecute ==
    /\ pc = "built"
    /\ \E o \in {"ExecuteCommand", "ExecuteAddCommand"} :
          Enter(o, arg, cmd)
    /\ UNCHANGED cmd

----------------------------------------------------------------------------
\* Post returns; the operation runs on to its next Post or to its return.
\* r is what Post returned for the body posted last.
Last(q) == q[Len(q)]

\* The err that Post and the decode of its bytes leave for r.
ErrOf(r) ==
    CASE r.kind = "posterr" -> r.err
      [] r.kind \in {"syntax", "type"} -> ErrDecode
      [] r.kind = "ok" -> Nil

\* GetTorrents (also inside a bulk operation) after ExecuteCommand. On an
\* error it returns without reading sortType.
GetTorrentsReply ==
    /\ pc = "inflight"
    /\ op \in {"GetTorrents"} \cup BulkOps
    /\ Len(posts) = 1
    /\ \E r \in PostOutcomes(Last(posts)) :
          LET x == ExecuteCommand(r) IN
          /\ errs' = Append(errs, ErrOf(r))
          /\ decodes' = Append(decodes, ExecuteCommand(r).decoded)
          /\ IF x.err # Nil
             THEN /\ pc' = "done"
                  /\ ret' = IF op = "GetTorrents"
                            THEN [val |-> <<>>, err |-> x.err]
                            ELSE [err |-> x.err]
                  /\ stale' = sortType
                  /\ raced' = FALSE
                  /\ UNCHANGED << sortType, lastSet, op, arg, cmd,
                                  listed, posts >>
             ELSE /\ pc' = "decoded"
                  /\ listed' = x.out.Arguments.Torrents
                  /\ UNCHANGED << sortType, lastSet, stale, raced, op, arg, cmd, posts, ret >>
    /\ UNCHANGED << ordered, modeRead, torrent >>

\* The switch of GetTorrents reads sortType once (the value written last, or
\* the earlier one a racing SetSort left), orders the list and returns it;
\* a bulk operation then takes the identifiers and posts its one command.
GetTorrentsSort ==
    /\ pc = "decoded"
    /\ \E m \in {stale, sortType} :
          /\ modeRead' = m
          /\ \E p \in SortSwitch(listed, m) :
                /\ ordered' = p
                /\ IF op = "GetTorrents"
                   THEN /\ pc' = "done"
                        /\ ret' = [val |-> p, err |-> Nil]
                        /\ UNCHANGED posts
                   ELSE /\ posts' =
                             Append(posts,
                                    Marshal([ZeroCommand EXCEPT
                                               !.Method = MethodOf(op),
                                               !.Arguments.Ids = GetIDs(p)]))
                        /\ pc' = "inflight"
                        /\ UNCHANGED ret
    /\ stale' = sortType
    /\ raced' = FALSE
    /\ UNCHANGED << sortType, lastSet, op, arg, cmd >>
    /\ UNCHANGED << errs, decodes, listed, torrent >>

\* StartAll, StopAll, VerifyAll after sendCommand.
BulkReply ==
    /\ pc = "inflight"
    /\ op \in BulkOps
    /\ Len(posts) = 2
    /\ \E r \in PostOutcomes(Last(posts)) :
          /\ errs' = Append(errs, ErrOf(r))
          /\ decodes' = Append(decodes, sendCommand(r).decoded)
          /\ Leave([err |-> sendCommand(r).err])
    /\ UNCHANGED << posts, listed, ordered, modeRead, torrent >>

\* GetTorrent's own part: what it returns for (out, err).
GetTorrent(x) ==
    IF x.err # Nil THEN [val |-> ZeroTorrent, err |-> x.err]
    ELSE IF Len(x.out.Arguments.Torrents) > 0
         THEN [val |-> x.out.Arguments.Torrents[1], err |-> Nil]
         ELSE [val |-> ZeroTorrent, err |-> ErrNotFound]

GetTorrentReply ==
    /\ pc = "inflight"
    /\ op = "GetTorrent"
    /\ \E r \in PostOutcomes(Last(posts)) :
          /\ errs' = Append(errs, ErrOf(r))
          /\ decodes' = Append(decodes, ExecuteCommand(r).decoded)
          /\ listed' = IF ExecuteCommand(r).err = Nil
                       THEN ExecuteCommand(r).out.Arguments.Torrents
                       ELSE <<>>
          /\ Leave(GetTorrent(ExecuteCommand(r)))
    /\ UNCHANGED << posts, ordered, modeRead, torrent >>

\* DeleteTorrent after its GetTorrent: return the error, or post the removal.
DeleteTorrentLookupReply ==
    /\ pc = "inflight"
    /\ op = "DeleteTorrent"
    /\ Len(posts) = 1
    /\ \E r \in PostOutcomes(Last(posts)) :
          LET g == GetTorrent(ExecuteCommand(r)) IN
          /\ errs' = Append(errs, ErrOf(r))
          /\ decodes' = Append(decodes, ExecuteCommand(r).decoded)
          /\ listed' = IF ExecuteCommand(r).err = Nil
                       THEN ExecuteCommand(r).out.Arguments.Torrents
                       ELSE <<>>
          /\ IF g.err # Nil
             THEN /\ Leave([val |-> <<>>, err |-> g.err])
                  /\ UNCHANGED << posts, torrent >>
             ELSE /\ torrent' = g.val
                  /\ posts' = Append(posts, Marshal(newDelCmd(arg.id, arg.wd)))
                  /\ UNCHANGED << sortType, lastSet, stale, raced, pc, op, arg, cmd, ret >>
    /\ UNCHANGED << ordered, modeRead >>

\* DeleteTorrent after the ExecuteCommand of the removal.
DeleteTorrentRemoveReply ==
    /\ pc = "inflight"
    /\ op = "DeleteTorrent"
    /\ Len(posts) = 2
    /\ \E r \in PostOutcomes(Last(posts)) :
          /\ errs' = Append(errs, ErrOf(r))
          /\ decodes' = Append(decodes, ExecuteCommand(r).decoded)
          /\ Leave(IF ExecuteCommand(r).err # Nil
                   THEN [val |-> <<>>, err |-> ExecuteCommand(r).err]
                   ELSE [val |-> torrent.Name, err |-> Nil])
    /\ UNCHANGED << posts, listed, ordered, modeRead, torrent >>

GetStatsReply ==
    /\ pc = "inflight"
    /\ op = "GetStats"
    /\ \E r \in PostOutcomes(Last(posts)) :
          LET x == ExecuteCommand(r)
              a == x.out.Arguments
          IN
          /\ errs' = Append(errs, ErrOf(r))
          /\ decodes' = Append(decodes, ExecuteCommand(r).decoded)
          /\ Leave(IF x.err # Nil
                   THEN [val |-> "nil", err |-> x.err]
                   ELSE [val |->
                           [ActiveTorrentCount |-> a.ActiveTorrentCount,
                            CumulativeStats |-> a.CumulativeStats,
                            CurrentStats |-> a.CurrentStats,
                            DownloadSpeed |-> a.DownloadSpeed,
                            PausedTorrentCount |-> a.PausedTorrentCount,
                            TorrentCount |-> a.TorrentCount,
                            UploadSpeed |-> a.UploadSpeed],
                         err |-> Nil])
    /\ UNCHANGED << posts, listed, ordered, modeRead, torrent >>

\* sendSimpleCommand: resp.Result and err, whatever err is.
SimpleReply ==
    /\ pc = "inflight"
    /\ op \in SimpleOps
    /\ \E r \in PostOutcomes(Last(posts)) :
          /\ errs' = Append(errs, ErrOf(r))
          /\ decodes' = Append(decodes, sendCommand(r).decoded)
          /\ Leave([val |-> sendCommand(r).out.Result,
                    err |-> sendCommand(r).err])
    /\ UNCHANGED << posts, listed, ordered, modeRead, torrent >>

\* Version: the error of sendCommand is dropped; only a string comes back.
VersionReply ==
    /\ pc = "inflight"
    /\ op = "Version"
    /\ \E r \in PostOutcomes(Last(posts)) :
          /\ errs' = Append(errs, ErrOf(r))
          /\ decodes' = Append(decodes, sendCommand(r).decoded)
          /\ Leave([val |-> sendCommand(r).out.Arguments.Version])
    /\ UNCHANGED << posts, listed, ordered, modeRead, torrent >>

ExecuteCommandReply ==
    /\ pc = "inflight"
    /\ op = "ExecuteCommand"
    /\ \E r \in PostOutcomes(Last(posts)) :
          /\ errs' = Append(errs, ErrOf(r))
          /\ decodes' = Append(decodes, ExecuteCommand(r).decoded)
          /\ Leave([val |-> ExecuteCommand(r).out, err |-> ExecuteCommand(r).err])
    /\ UNCHANGED << posts, listed, ordered, modeRead, torrent >>

ExecuteAddCommandReply ==
    /\ pc = "inflight"
    /\ op = "ExecuteAddCommand"
    /\ \E r \in PostOutcomes(Last(posts)) :
          LET x == ExecuteCommand(r) IN
          /\ errs' = Append(errs, ErrOf(r))
          /\ decodes' = Append(decodes, ExecuteCommand(r).decoded)
          /\ Leave(IF x.err # Nil
                   THEN [val |-> ZeroTorrentAdded, err |-> x.err]
                   ELSE [val |-> x.out.Arguments.TorrentAdded, err |-> Nil])
    /\ UNCHANGED << posts, listed, ordered, modeRead, torrent >>

\* The caller takes the result (or drops the command it built) and goes on.
Return ==
    /\ pc \in {"done", "built"}
    /\ pc' = "idle"
    /\ op' = "none"
    /\ arg' = NoArg
    /\ cmd' = ZeroCommand
    /\ posts' = <<>>
    /\ errs' = <<>>
    /\ decodes' = <<>>
    /\ listed' = <<>>
    /\ ordered' = <<>>
    /\ torrent' = ZeroTorrent
    /\ ret' = NoRet
    /\ modeRead' = SortID
    /\ UNCHANGED << sortType, lastSet, stale, raced >>

Next ==
    \/ \E st \in Sorting : SetSort(st)
    \/ CallGetTorrents
    \/ CallGetTorrent
    \/ CallGetStats
    \/ CallSimple
    \/ CallVersion
    \/ BuildGetTorrentsCmd
    \/ BuildAddCmdByURL
    \/ BuildAddCmdByMagnet
    \/ BuildAddCmdByFilename
    \/ BuildAddCmdByFile
    \/ DoSetDownloadDir
    \/ CallExecute
    \/ GetTorrentsReply
    \/ GetTorrentsSort
    \/ BulkReply
    \/ GetTorrentReply
    \/ DeleteTorrentLookupReply
    \/ DeleteTorrentRemoveReply
    \/ GetStatsReply
    \/ SimpleReply
    \/ VersionReply
    \/ ExecuteCommandReply
    \/ ExecuteAddCommandReply
    \/ Return

Spec == Init /\ [][Next]_vars

----------------------------------------------------------------------------
\* Vocabulary of the properties.

\* GetTorrents (called directly or by a bulk operation) has returned a list.
Returned ==
    \/ op = "GetTorrents" /\ pc = "done" /\ ret.err = Nil
    \/ op \in BulkOps /\ Len(posts) = 2

CountID(s, id) == Cardinality({ i \in 1..Len(s) : s[i].ID = id })

IDsIn(s) == { s[i].ID : i \in 1..Len(s) }

\* The field a mode sorts on, and its direction.
KeyField(st) ==
    CASE st \in {SortID, SortRevID} -> "ID"
      [] st \in {SortName, SortRevName} -> "Name"
      [] st \in {SortAge, SortRevAge} -> "AddedDate"
      [] st \in {SortSize, SortRevSize} -> "SizeWhenDone"
      [] st \in {SortProgress, SortRevProgress} -> "PercentDone"
      [] st \in {SortDownloaded, SortRevDownloaded} -> "DownloadedEver"
      [] st \in {SortUploaded, SortRevUploaded} -> "UploadedEver"
      [] st \in {SortRatio, SortRevRatio} -> "UploadRatio"

Descending(st) ==
    st \in {SortRevID, SortRevName, SortRevAge, SortRevSize, SortRevProgress,
            SortRevDownloaded, SortRevUploaded, SortRevRatio}

\* a's key is strictly smaller than b's.
KeySmaller(st, a, b) ==
    IF KeyField(st) = "Name" THEN StrLess(a.Name, b.Name)
    ELSE a[KeyField(st)] < b[KeyField(st)]

\* s is in the order of mode st: going down the list the key never gets
\* strictly smaller (ascending) or strictly larger (descending).
InOrderOf(s, st) ==
    \A i, j \in 1..Len(s) :
        i < j => IF Descending(st) THEN ~ KeySmaller(st, s[i], s[j])
                                   ELSE ~ KeySmaller(st, s[j], s[i])

PositionIn(s, t) == CHOOSE k \in 1..Len(s) : s[k] = t

\* C1: the list GetTorrents returns holds the same multiset of torrent
\* identifiers as the list it decoded, whatever the mode: nothing is dropped
\* and nothing is duplicated by the ordering.
C1_Permutation ==
    Returned =>
        /\ Len(ordered) = Len(listed)
        /\ \A id \in IDsIn(listed) \cup IDsIn(ordered) :
              CountID(ordered, id) = CountID(listed, id)

\* An ordering that moved torrents has run, in a mode other than the default.
C1_Witness ==
    /\ Returned
    /\ op = "GetTorrents"
    /\ modeRead = SortRevSize
    /\ Len(listed) = MaxLen
    /\ ordered # listed

\* C2: the ordering is stable: two torrents with equal keys under the mode
\* read keep, in the list returned, the relative order they had in the reply.
C2_Stable ==
    Returned =>
        \A i, j \in 1..Len(listed) :
            ( /\ i < j
              /\ ~ KeySmaller(modeRead, listed[i], listed[j])
              /\ ~ KeySmaller(modeRead, listed[j], listed[i]) )
            => PositionIn(ordered, listed[i]) < PositionIn(ordered, listed[j])

\* C3: in each of the 15 modes other than SortID the list GetTorrents returns
\* is in the order of that mode's own key and direction.
C3_OrderedByMode ==
    (Returned /\ modeRead # SortID) => InOrderOf(ordered, modeRead)

\* A descending sort on the ratio has reordered a full-length reply.
C3_Witness ==
    /\ Returned
    /\ op = "GetTorrents"
    /\ modeRead = SortRevRatio
    /\ Len(listed) = MaxLen
    /\ ordered # listed
    /\ \E i, j \in 1..Len(ordered) :
          i < j /\ KeySmaller(modeRead, ordered[j], ordered[i])

\* C4: in mode SortID the list GetTorrents returns is in ascending order of
\* the identifiers.
C4_DefaultAscendingByID ==
    (Returned /\ modeRead = SortID) => InOrderOf(ordered, SortID)


\* C5: the mode is SortID until the first SetSort and is the argument of the
\* latest SetSort ever after, and every list GetTorrents returns is in the
\* order of the mode its switch read.
C5_ModeGoverns ==
    /\ sortType = lastSet
    /\ Returned => InOrderOf(ordered, modeRead)

\* The part of C5 about who writes the mode: a step that changes sortType is
\* a SetSort step, which touches nothing else of the call in progress.
C5_OnlySetSortWrites ==
    [][sortType' # sortType => \E st \in Sorting : SetSort(st)]_vars

\* C6: GetTorrent(id) returns the not-found error when the reply decoded has
\* no torrent with identifier id, and a torrent it returns with a nil error
\* has identifier id and is not the zero value.
C6_GetTorrentFindsID ==
    (op = "GetTorrent" /\ pc = "done") =>
        /\ (errs = <<Nil>> /\ arg.id \notin IDsIn(listed))
              => ret.err = ErrNotFound
        /\ ret.err = Nil => (ret.val.ID = arg.id /\ ret.val # ZeroTorrent)

\* The id list of a request body: an absent member is the empty list.
WireIds(body) == Member(body.arguments, "ids", <<>>)

WireMethod(body) == Member(body, "method", "")

\* C7: a bulk operation posts the list query first; it posts at most one
\* request with its own method, only after the list query succeeded, with
\* the identifiers of the list GetTorrents returned, in that order; when the
\* list query fails it returns that error and has posted nothing else; when
\* it returns after a successful list query it has posted exactly one.
C7_BulkOneRequest ==
    op \in BulkOps =>
        LET own == { i \in 1..Len(posts) : WireMethod(posts[i]) = MethodOf(op) }
        IN  /\ WireMethod(posts[1]) = "torrent-get"
            /\ Cardinality(own) <= 1
            /\ \A i \in own :
                  /\ i = 2
                  /\ errs[1] = Nil
                  /\ WireIds(posts[i]) = [k \in 1..Len(ordered) |-> ordered[k].ID]
            /\ pc = "done" =>
                  IF errs[1] # Nil
                  THEN Len(posts) = 1 /\ own = {} /\ ret.err = errs[1]
                  ELSE Len(posts) = 2 /\ own = {2} /\ ret.err = errs[2]

\* StopAll has returned after posting torrent-stop for a reordered full list.
C7_Witness ==
    /\ op = "StopAll"
    /\ pc = "done"
    /\ ret.err = Nil
    /\ Len(listed) = MaxLen
    /\ ordered # listed
    /\ WireIds(posts[2]) = [k \in 1..Len(ordered) |-> ordered[k].ID]

\* C8: an operation during which a Post or a decode failed returns a non-nil
\* error to its caller.
C8_NoErrorSwallowed ==
    (pc = "done" /\ \E i \in 1..Len(errs) : errs[i] # Nil) =>
        ("err" \in DOMAIN ret /\ ret.err # Nil)

\* The argument members each method uses on a request.
UsedMembers(m) ==
    CASE m = "torrent-get" -> {"fields", "ids"}
      [] m = "torrent-add" -> {"filename", "metainfo", "download-dir"}
      [] m = "torrent-remove" -> {"ids", "delete-local-data"}
      [] m \in {"torrent-start", "torrent-stop", "torrent-verify"} -> {"ids"}
      [] OTHER -> {}

\* C9: the arguments object of every body posted has no member other than
\* those its method uses.
C9_OnlyUsedMembers ==
    \A i \in 1..Len(posts) :
        DOMAIN posts[i].arguments \subseteq UsedMembers(WireMethod(posts[i]))

\* The caller holds a torrent-add command it constructed.
BuiltAdd ==
    /\ pc = "built"
    /\ op \in {"NewAddCmdByURL", "NewAddCmdByMagnet", "NewAddCmdByFilename",
              "NewAddCmdByFile"}

Populated(c) ==
    (IF c.Arguments.Filename # "" THEN {"filename"} ELSE {})
      \cup (IF Len(c.Arguments.MetaInfo) > 0 THEN {"metainfo"} ELSE {})

\* C10 as stated: a constructed add command, before and after
\* SetDownloadDir, has exactly one of filename and metainfo populated; one
\* built from a URL or magnet string has only filename, and no metainfo
\* member when serialized.
C10_ExactlyOneSource ==
    BuiltAdd =>
        /\ Cardinality(Populated(cmd)) = 1
        /\ op \in {"NewAddCmdByURL", "NewAddCmdByMagnet"} =>
              /\ Populated(cmd) = {"filename"}
              /\ "metainfo" \notin DOMAIN Marshal(cmd).arguments

\* C10 amended: never both; the one the constructor is for is populated
\* exactly when the string or the file given is not empty, the other never
\* is, and the serialized form has the member of a source exactly when that
\* source is populated.
C10_AtMostOneSource ==
    BuiltAdd =>
        /\ cmd.Method = "torrent-add"
        /\ Populated(cmd) =
              IF op = "NewAddCmdByFile"
              THEN (IF Len(arg.src) > 0 THEN {"metainfo"} ELSE {})
              ELSE (IF arg.src # "" THEN {"filename"} ELSE {})
        /\ op # "NewAddCmdByFile" => cmd.Arguments.Filename = arg.src
        /\ DOMAIN Marshal(cmd).arguments \cap {"filename", "metainfo"}
              = Populated(cmd)

\* A command built from a magnet string, after SetDownloadDir.
C10_Witness ==
    /\ BuiltAdd
    /\ op = "NewAddCmdByURL"
    /\ arg.src = "magnet:?xt=urn:btih:c12fe1"
    /\ arg.dir
    /\ cmd.Arguments.DownloadDir = "/downloads"
    /\ Populated(cmd) = {"filename"}

----------------------------------------------------------------------------
\* The operations whose result is that of one ExecuteCommand or sendCommand
\* call: ExecuteCommand itself, and sendSimpleCommand's callers, which
\* hand on the err of sendCommand as it is.
DirectOps == {"ExecuteCommand"} \cup SimpleOps

\* The k-th ExecuteCommand or sendCommand call of the operation in progress
\* has returned, and its Post failed.
PostFailed(k) == k \in 1..Len(errs) /\ errs[k] \in PostErrors

\* C11: each ExecuteCommand or sendCommand call hands one body to Post
\* (the bodies posted are one per call that returned, plus one for the call
\* still inside Post); when that Post fails, the call does not run
\* json.Unmarshal, nothing more is posted, and the error the caller gets is
\* the very error Post returned.
C11_PostOnceErrorVerbatim ==
    /\ Len(posts) = Len(errs) + (IF pc = "inflight" THEN 1 ELSE 0)
    /\ Len(decodes) = Len(errs)
    /\ \A k \in 1..Len(errs) :
          PostFailed(k) =>
             /\ ~decodes[k]
             /\ Len(posts) = k
             /\ pc = "done"
             /\ op \in DirectOps => ret.err = errs[k]

\* ExecuteCommand returned after its Post failed with the second error.
C11_Witness ==
    /\ pc = "done"
    /\ op = "ExecuteCommand"
    /\ Len(posts) = 1
    /\ errs = << ErrUnauthorized >>
    /\ decodes = << FALSE >>
    /\ ret.err = ErrUnauthorized

----------------------------------------------------------------------------
\* The delete-local-data flag a posted body carries (absent means false).
WireDeleteData(body) == Member(body.arguments, "delete-local-data", FALSE)

\* DeleteTorrent's lookup has returned and failed: by an error of the
\* transport or of the decode, or by a reply that lists no torrent.
LookupFailed == Len(errs) >= 1 /\ (errs[1] # Nil \/ listed = <<>>)

\* C12: DeleteTorrent(id, wd) posts the list-one query for id first; a
\* torrent-remove body is posted only second and only after the lookup
\* returned a torrent, and it carries exactly id and the flag wd; when the
\* lookup fails nothing more is posted and the call returns its error with
\* an empty name; a call that succeeds returns the name of the torrent the
\* lookup found.
C12_RemoveOnlyAfterLookup ==
    (op = "DeleteTorrent" /\ pc # "idle") =>
        /\ Len(posts) \in {1, 2}
        /\ WireMethod(posts[1]) = "torrent-get"
        /\ WireIds(posts[1]) = << arg.id >>
        /\ \A k \in 1..Len(posts) :
              WireMethod(posts[k]) = "torrent-remove" =>
                 /\ k = 2
                 /\ errs[1] = Nil
                 /\ Len(listed) > 0
                 /\ WireIds(posts[k]) = << arg.id >>
                 /\ WireDeleteData(posts[k]) = arg.wd
        /\ LookupFailed =>
              /\ Len(posts) = 1
              /\ pc = "done"
              /\ ret.val = <<>>
              /\ ret.err = (IF errs[1] # Nil THEN errs[1] ELSE ErrNotFound)
        /\ (pc = "done" /\ ret.err = Nil) =>
              /\ WireMethod(posts[2]) = "torrent-remove"
              /\ ret.val = listed[1].Name

\* DeleteTorrent(2, true) returned the name of the torrent it looked up.
C12_Witness ==
    /\ op = "DeleteTorrent"
    /\ pc = "done"
    /\ arg = [id |-> 2, wd |-> TRUE]
    /\ Len(posts) = 2
    /\ errs = << Nil, Nil >>
    /\ listed[1].ID = 2
    /\ ret = [val |-> listed[1].Name, err |-> Nil]

----------------------------------------------------------------------------
\* The step in which a call reads sortType in the switch of GetTorrents,
\* orders the decoded list and returns it.
ReadsMode == pc = "decoded" /\ pc' # "decoded"

\* C13: when a SetSort ran while a GetTorrents call was under way and had
\* not yet read the mode, the call reads the mode that SetSort left (the
\* mode set last, since that SetSort has completed) and the list it returns
\* is ordered throughout by that mode.
C13_RacingSetSortGoverns ==
    [][ (ReadsMode /\ raced) =>
           /\ modeRead' = lastSet
           /\ InOrderOf(ordered', modeRead') ]_vars

\* What does hold of that step: the mode is read in that one step, after
\* the reply was decoded and not before; it is the value sortType has or
\* the earlier one left by a racing SetSort, never a third; and the list
\* returned is the decoded list as the switch leaves it for that one mode,
\* ordered by it unless the mode is SortID.
C13_OneModeOldOrNew ==
    [][ /\ ReadsMode =>
             /\ Len(errs) = 1 /\ errs[1] = Nil
             /\ modeRead' \in {stale, sortType}
             /\ ordered' \in SortSwitch(listed, modeRead')
             /\ modeRead' # SortID => InOrderOf(ordered', modeRead')
        /\ modeRead' # modeRead =>
             \/ ReadsMode
             \/ modeRead' = SortID /\ pc' \in {"idle", "built", "inflight", "done"}
                                    /\ ordered' = <<>> ]_vars

====
